---------------------------- MODULE Spec2Model ----------------------------
(***************************************************************************)
(* Schema-based multi-tenancy (django_tenants): the PostgreSQL backend     *)
(* wrapper that routes one connection to a tenant's schema, the tenant     *)
(* model's save / delete / create_schema / delete_schema life cycle, and   *)
(* the helpers of utils.py.                                                *)
(*                                                                         *)
(* A schema name is a sequence of one-character strings, so that the       *)
(* regular expressions of the validator and the quoting of protect_case    *)
(* are computed character by character.                                    *)
(***************************************************************************)
EXTENDS Integers, Sequences, FiniteSets, TLC

VARIABLES
    \* DatabaseWrapper fields (postgresql_backend/base.py)
    schema_name, include_public_schema, search_path_set, tenant, settings_schema,
    \* the live PostgreSQL session behind the connection, and the cursor the caller holds
    session_path, tx_aborted, tx_start_path, cursor_open, cursor_fresh, router_call,
    \* the database: namespaces, tenant rows, the clone_schema() procedure
    namespaces, rows, clone_function,
    \* the tenant model instances living in the Python process
    objs,
    \* settings
    limit_set_calls, fake_migrations,
    \* what the last operation was, how it ended, and what it sent out
    last, outcome, log, signals,
    \* the validator applied to one candidate name
    vname, vresult,
    \* the with-blocks the caller is inside of, innermost last
    scopes,
    \* the processes that provision concurrently, each on a connection of its
    \* own: where each one is in create_schema, and its connection
    workers

vars_conn == <<schema_name, include_public_schema, search_path_set, tenant, settings_schema>>
vars_sess == <<session_path, tx_aborted, tx_start_path, cursor_open, cursor_fresh,
               router_call>>
vars_db   == <<namespaces, rows, clone_function, objs>>
vars_cfg  == <<limit_set_calls, fake_migrations>>
vars_obs  == <<last, outcome, log, signals>>
vars_val  == <<vname, vresult>>
vars_ctx  == <<scopes, workers>>
vars      == <<vars_conn, vars_sess, vars_db, vars_cfg, vars_obs, vars_val, vars_ctx>>

---------------------------------------------------------------------------
(* Characters and names *)

LowerCase == {"a","b","c","d","e","f","g","h","i","j","k","l","m",
              "n","o","p","q","r","s","t","u","v","w","x","y","z"}
UpperCase == {"A","B","C","D","E","F","G","H","I","J","K","L","M",
              "N","O","P","Q","R","S","T","U","V","W","X","Y","Z"}
Digits    == {"0","1","2","3","4","5","6","7","8","9"}

\* [_a-zA-Z] and [_a-zA-Z0-9] of SQL_IDENTIFIER_RE
HeadClass == {"_"} \cup LowerCase \cup UpperCase
BodyClass == HeadClass \cup Digits

\* the upper repetition count of SQL_IDENTIFIER_RE, {,62}
MaxRepeat == 62

\* Python's None as a schema name: a value no string equals
NoneName == <<"<None>">>

\* get_public_schema_name(): settings.PUBLIC_SCHEMA_NAME, 'public' by default
get_public_schema_name == <<"p","u","b","l","i","c">>

\* EXTRA_SEARCH_PATHS: settings.PG_EXTRA_SEARCH_PATHS, here ['ext']
EXTRA_SEARCH_PATHS == << <<"e","x","t">> >>

\* get_tenant_base_schema(): settings.TENANT_BASE_SCHEMA, here 'base-tpl'
get_tenant_base_schema == <<"b","a","s","e","-","t","p","l">>

---------------------------------------------------------------------------
(* The schema-name validator *)

\* '$' of a Python pattern without re.MULTILINE: at the end of the string,
\* and also just before a newline that is the string's last character.
AtDollar(s, pos) ==
    \/ pos = Len(s)
    \/ pos = Len(s) - 1 /\ s[Len(s)] = "\n"

\* SQL_IDENTIFIER_RE.match(s): ^[_a-zA-Z][_a-zA-Z0-9]{,62}$
SQL_IDENTIFIER_RE(s) ==
    \E k \in 0..MaxRepeat :
        /\ Len(s) >= 1 + k
        /\ s[1] \in HeadClass
        /\ \A i \in 2..(1 + k) : s[i] \in BodyClass
        /\ AtDollar(s, 1 + k)

\* SQL_SCHEMA_NAME_RESERVED_RE.match(s): ^pg_ with re.IGNORECASE
SQL_SCHEMA_NAME_RESERVED_RE(s) ==
    /\ Len(s) >= 3
    /\ s[1] \in {"p", "P"}
    /\ s[2] \in {"g", "G"}
    /\ s[3] = "_"

_is_valid_identifier(identifier) == SQL_IDENTIFIER_RE(identifier)

_is_valid_schema_name(name) ==
    _is_valid_identifier(name) /\ ~SQL_SCHEMA_NAME_RESERVED_RE(name)

\* _check_schema_name(name): the exception it raises, "none" when it returns.
\* re.match(None) is a TypeError.
_check_schema_name(name) ==
    IF name = NoneName THEN "TypeError"
    ELSE IF ~_is_valid_schema_name(name) THEN "ValidationError"
    ELSE "none"

\* protect_case(schema_name): '"' + schema_name + '"'
protect_case(name) == <<"\"">> \o name \o <<"\"">>

\* connection.ops.quote_name(name) of the PostgreSQL backend: the name in
\* double quotes, unless it already starts and ends with one
quote_name(name) ==
    IF Len(name) >= 1 /\ name[1] = "\"" /\ name[Len(name)] = "\"" THEN name
    ELSE <<"\"">> \o name \o <<"\"">>

---------------------------------------------------------------------------
(* Names, tenants and statements of the model *)

T1       == <<"t","1">>
T2       == <<"t","2">>
BadName  == <<"t","-","1">>
Reserved == <<"P","g","_","x">>
EmptyName == <<>>

\* the names a caller hands to set_schema()
SchemaArgs == {get_public_schema_name, T1, T2, BadName, Reserved, EmptyName, NoneName}

\* the tenant model instances of the process
ObjIds == {"A", "B", "C", "N"}

\* FakeTenant(schema_name): a handle that carries only the schema name
FakeTenant(name) == [kind |-> "fake", id |-> "-", schema_name |-> name]

\* None where a tenant is expected
NoTenant == [kind |-> "none", id |-> "-", schema_name |-> NoneName]

\* a reference to the tenant model instance id
TenantRef(id) == [kind |-> "obj", id |-> id, schema_name |-> NoneName]

\* tenant.schema_name of a handle
SchemaNameOf(w, handle) ==
    IF handle.kind = "obj" THEN w.objs[handle.id].schema_name ELSE handle.schema_name

\* tx_start_path when the session is in autocommit mode: no transaction is open
NoTx == <<>>

\* the search_path of a session the connection has just opened
ServerDefaultPath == << <<"\"","$","u","s","e","r","\"">>, get_public_schema_name >>

\* one statement sent to the backend: its kind, the names in its text or
\* parameters, and whether the backend executed it
Stmt(kind, names, ok) == [kind |-> kind, names |-> names, ok |-> ok]

Raise(w, exc) == [w EXCEPT !.exc = exc]

\* the state the operations act on, as one record
World ==
    [schema_name |-> schema_name, include_public_schema |-> include_public_schema,
     search_path_set |-> search_path_set, tenant |-> tenant,
     settings_schema |-> settings_schema, session_path |-> session_path,
     namespaces |-> namespaces, rows |-> rows, clone_function |-> clone_function,
     objs |-> objs, log |-> <<>>, signals |-> <<>>, exc |-> "none", ret |-> "None"]

\* the state after an operation that ended in w
Becomes(w) ==
    /\ schema_name' = w.schema_name
    /\ include_public_schema' = w.include_public_schema
    /\ search_path_set' = w.search_path_set
    /\ tenant' = w.tenant
    /\ settings_schema' = w.settings_schema
    /\ session_path' = w.session_path
    /\ namespaces' = w.namespaces
    /\ rows' = w.rows
    /\ clone_function' = w.clone_function
    /\ objs' = w.objs
    /\ log' = w.log
    /\ signals' = w.signals
    /\ outcome' = [exc |-> w.exc, ret |-> w.ret]

---------------------------------------------------------------------------
(* DatabaseWrapper: the router *)

\* set_settings_schema: settings_dict['SCHEMA']
set_settings_schema(name, include_public) ==
    IF include_public /\ name # get_public_schema_name
    THEN <<name, get_public_schema_name>>
    ELSE <<name>>

_set_schema(w, name, include_public) ==
    [w EXCEPT !.schema_name = name,
              !.include_public_schema = include_public,
              !.settings_schema = set_settings_schema(name, include_public),
              !.search_path_set = FALSE]

\* set_tenant(None) has assigned self.tenant when tenant.schema_name raises
set_tenant(w, handle, include_public) ==
    IF handle = NoTenant THEN Raise([w EXCEPT !.tenant = handle], "AttributeError")
    ELSE _set_schema([w EXCEPT !.tenant = handle], SchemaNameOf(w, handle), include_public)

set_schema(w, name, include_public) ==
    _set_schema([w EXCEPT !.tenant = FakeTenant(name)], name, include_public)

set_schema_to_public(w) ==
    _set_schema([w EXCEPT !.tenant = FakeTenant(get_public_schema_name)],
                get_public_schema_name, TRUE)

\* a variant: `self.schema_name is None` in place of `not self.schema_name`
SchemaNotSet_NoneOnly(name) == name = NoneName

\* `not self.schema_name`: None and the empty string
SchemaNotSet(name) == name = NoneName \/ name = EmptyName

\* a variant: the public schema is put on the path whatever include_public says
search_paths_AlwaysPublic(active, include_public) ==
    LET head == IF active = get_public_schema_name
                  THEN <<protect_case(get_public_schema_name)>>
                ELSE <<protect_case(active), protect_case(get_public_schema_name)>>
    IN  head \o [i \in 1..Len(EXTRA_SEARCH_PATHS) |-> protect_case(EXTRA_SEARCH_PATHS[i])]

\* the search_paths list that _cursor builds
search_paths(active, include_public) ==
    LET head == IF active = get_public_schema_name
                  THEN <<protect_case(get_public_schema_name)>>
                ELSE IF include_public
                  THEN <<protect_case(active), protect_case(get_public_schema_name)>>
                ELSE <<protect_case(active)>>
    IN  head \o [i \in 1..Len(EXTRA_SEARCH_PATHS) |-> protect_case(EXTRA_SEARCH_PATHS[i])]

\* a variant: the limit is ignored, every cursor sends SET
MustSetPath_Always(w) == TRUE

\* whether _cursor goes into the search-path block
MustSetPath(w) == (~limit_set_calls) \/ ~w.search_path_set

\* a variant of _cursor: the flag is set whether the SET succeeded or not
_cursor_FlagAlwaysSet(w, named) ==
    IF ~MustSetPath(w) THEN w
    ELSE IF SchemaNotSet(w.schema_name) THEN Raise(w, "ImproperlyConfigured")
    ELSE IF _check_schema_name(w.schema_name) # "none"
        THEN Raise(w, _check_schema_name(w.schema_name))
    ELSE LET paths == search_paths(w.schema_name, w.include_public_schema)
         IN  IF tx_aborted
             THEN [w EXCEPT !.log = Append(@, Stmt("SET", paths, FALSE)),
                            !.search_path_set = TRUE]
             ELSE [w EXCEPT !.log = Append(@, Stmt("SET", paths, TRUE)),
                            !.session_path = paths,
                            !.search_path_set = TRUE]

\* _cursor(name): the cursor is returned unless w.exc is set. A SET sent
\* while the transaction is aborted raises a DatabaseError, which is caught.
\* A named cursor differs only in the cursor that carries the SET
\* (connection.cursor() instead of the cursor returned).
_cursor(w, named) ==
    IF ~MustSetPath(w) THEN w
    ELSE IF SchemaNotSet(w.schema_name) THEN Raise(w, "ImproperlyConfigured")
    ELSE IF _check_schema_name(w.schema_name) # "none"
        THEN Raise(w, _check_schema_name(w.schema_name))
    ELSE LET paths == search_paths(w.schema_name, w.include_public_schema)
         IN  IF tx_aborted
             THEN [w EXCEPT !.log = Append(@, Stmt("SET", paths, FALSE)),
                            !.search_path_set = FALSE]
             ELSE [w EXCEPT !.log = Append(@, Stmt("SET", paths, TRUE)),
                            !.session_path = paths,
                            !.search_path_set = TRUE]

---------------------------------------------------------------------------
(* The operations of one connection *)

\* what the collaborators of one call do: the backend refuses CREATE SCHEMA,
\* the migration runner raises (leaving the connection on the target schema or
\* not), the clone procedure fails, a signal listener raises
Faults == [create : BOOLEAN, migrate : BOOLEAN, on_target : BOOLEAN,
           clone : BOOLEAN, listener : BOOLEAN]

NoFaults == [create |-> FALSE, migrate |-> FALSE, on_target |-> FALSE,
             clone |-> FALSE, listener |-> FALSE]

\* a call: the method, the instance it was called on or with, and its flag
Op(op, obj, flag) == [op |-> op, obj |-> obj, flag |-> flag]

\* the instances at the start, none of them saved: A and B name tenants, C
\* carries a name that is no identifier, N has no schema name. B's class sets
\* auto_create_schema = False and auto_drop_schema = True, the others keep the
\* defaults of TenantMixin.
InitObjs ==
    [id \in ObjIds |->
        [schema_name |-> CASE id = "A" -> T1
                           [] id = "B" -> T2
                           [] id = "C" -> BadName
                           [] OTHER    -> NoneName,
         pk |-> FALSE,
         _previous_tenant |-> NoTenant,
         auto_create_schema |-> (id # "B"),
         auto_drop_schema |-> (id = "B")]]

\* DatabaseWrapper.__init__, up to and including its set_schema_to_public()
InitConnection ==
    /\ schema_name = get_public_schema_name
    /\ include_public_schema = TRUE
    /\ search_path_set = FALSE
    /\ tenant = FakeTenant(get_public_schema_name)
    /\ settings_schema = <<get_public_schema_name>>
    /\ session_path = ServerDefaultPath
    /\ tx_aborted = FALSE
    /\ tx_start_path = NoTx
    /\ cursor_open = FALSE
    /\ cursor_fresh = FALSE
    /\ router_call = "set_schema_to_public"
    /\ outcome = [exc |-> "none", ret |-> "None"]
    /\ log = <<>>
    /\ signals = <<>>

\* a router call: every cursor handed out before it is now an old one
RouterCall(op) ==
    /\ router_call' = op
    /\ cursor_fresh' = FALSE
    /\ UNCHANGED <<tx_aborted, tx_start_path, cursor_open>>

SetTenant(id, include_public) ==
    /\ Becomes(set_tenant(World, TenantRef(id), include_public))
    /\ last' = Op("set_tenant", id, include_public)
    /\ RouterCall("set_tenant")
    /\ UNCHANGED <<vars_cfg, vars_val, vars_ctx>>

SetSchema(name, include_public) ==
    /\ Becomes(set_schema(World, name, include_public))
    /\ last' = Op("set_schema", "-", include_public)
    /\ RouterCall("set_schema")
    /\ UNCHANGED <<vars_cfg, vars_val, vars_ctx>>

SetSchemaToPublic ==
    /\ Becomes(set_schema_to_public(World))
    /\ last' = Op("set_schema_to_public", "-", TRUE)
    /\ RouterCall("set_schema_to_public")
    /\ UNCHANGED <<vars_cfg, vars_val, vars_ctx>>

\* connection.cursor() / a named (server-side) cursor: the caller holds the
\* cursor when no exception left _cursor
Cursor(named) ==
    LET w == _cursor(World, named) IN
    /\ Becomes(w)
    /\ last' = Op("cursor", "-", named)
    /\ cursor_open' = IF w.exc = "none" THEN TRUE ELSE cursor_open
    /\ cursor_fresh' = IF w.exc = "none" THEN TRUE ELSE cursor_fresh
    /\ UNCHANGED <<tx_aborted, tx_start_path, router_call, vars_cfg, vars_val, vars_ctx>>

\* cursor.execute(query) on the cursor held: it runs against the session's
\* search path, and fails in an aborted transaction
Execute ==
    /\ cursor_open
    /\ last' = Op("execute", "-", FALSE)
    /\ outcome' = [exc |-> IF tx_aborted THEN "DatabaseError" ELSE "none", ret |-> "None"]
    /\ log' = <<Stmt("QUERY", session_path, ~tx_aborted)>>
    /\ signals' = <<>>
    /\ UNCHANGED <<vars_conn, vars_sess, vars_db, vars_cfg, vars_val, vars_ctx>>

\* the caller opens a transaction (transaction.atomic, or autocommit off):
\* the backend remembers the session's settings of this moment
Begin ==
    /\ tx_start_path = NoTx
    /\ tx_start_path' = session_path
    /\ last' = Op("begin", "-", FALSE)
    /\ outcome' = [exc |-> "none", ret |-> "None"]
    /\ log' = <<>>
    /\ signals' = <<>>
    /\ UNCHANGED <<vars_conn, session_path, tx_aborted, cursor_open, cursor_fresh,
                   router_call, vars_db, vars_cfg, vars_val, vars_ctx>>

\* a statement of the caller fails inside a transaction, which is aborted
\* from then on: every statement fails until the rollback
ExecuteFails ==
    /\ cursor_open
    /\ tx_start_path # NoTx
    /\ ~tx_aborted
    /\ tx_aborted' = TRUE
    /\ last' = Op("execute", "-", TRUE)
    /\ outcome' = [exc |-> "DatabaseError", ret |-> "None"]
    /\ log' = <<Stmt("QUERY", session_path, FALSE)>>
    /\ signals' = <<>>
    /\ UNCHANGED <<vars_conn, session_path, tx_start_path, cursor_open, cursor_fresh,
                   router_call, vars_db, vars_cfg, vars_val, vars_ctx>>

\* what the backend does to search_path at ROLLBACK: a SET issued inside the
\* transaction is undone with it
RolledBackPath == tx_start_path

\* the rollback that ends the transaction, aborted or not
Rollback ==
    /\ tx_start_path # NoTx
    /\ tx_aborted' = FALSE
    /\ tx_start_path' = NoTx
    /\ session_path' = RolledBackPath
    /\ last' = Op("rollback", "-", FALSE)
    /\ outcome' = [exc |-> "none", ret |-> "None"]
    /\ log' = <<>>
    /\ signals' = <<>>
    /\ UNCHANGED <<vars_conn, cursor_open, cursor_fresh, router_call,
                   vars_db, vars_cfg, vars_val, vars_ctx>>

\* the commit of a transaction that is not aborted
Commit ==
    /\ tx_start_path # NoTx
    /\ ~tx_aborted
    /\ tx_start_path' = NoTx
    /\ last' = Op("commit", "-", FALSE)
    /\ outcome' = [exc |-> "none", ret |-> "None"]
    /\ log' = <<>>
    /\ signals' = <<>>
    /\ UNCHANGED <<vars_conn, session_path, tx_aborted, cursor_open, cursor_fresh,
                   router_call, vars_db, vars_cfg, vars_val, vars_ctx>>

\* DatabaseWrapper.close(): the session is gone, the next cursor opens a new one
Close ==
    /\ search_path_set' = FALSE
    /\ session_path' = ServerDefaultPath
    /\ tx_aborted' = FALSE
    /\ tx_start_path' = NoTx
    /\ cursor_open' = FALSE
    /\ cursor_fresh' = FALSE
    /\ last' = Op("close", "-", FALSE)
    /\ outcome' = [exc |-> "none", ret |-> "None"]
    /\ log' = <<>>
    /\ signals' = <<>>
    /\ UNCHANGED <<schema_name, include_public_schema, tenant, settings_schema,
                   router_call, vars_db, vars_cfg, vars_val, vars_ctx>>

Init ==
    /\ InitConnection
    /\ namespaces = {get_public_schema_name, T1, T2}
    /\ rows = {}
    /\ clone_function = FALSE
    /\ objs = InitObjs
    /\ limit_set_calls \in BOOLEAN
    /\ fake_migrations = FALSE
    /\ vname = <<>>
    /\ vresult = "unused"
    /\ scopes = <<>>
    /\ workers = <<>>
    /\ last = Op("__init__", "-", TRUE)

Next ==
    \/ \E id \in ObjIds, include_public \in BOOLEAN : SetTenant(id, include_public)
    \/ \E name \in SchemaArgs, include_public \in BOOLEAN : SetSchema(name, include_public)
    \/ SetSchemaToPublic
    \/ \E named \in BOOLEAN : Cursor(named)
    \/ Execute
    \/ Begin
    \/ ExecuteFails
    \/ Rollback
    \/ Commit
    \/ Close

Spec == Init /\ [][Next]_vars

---------------------------------------------------------------------------
(* utils.py and TenantMixin: namespaces and tenant rows *)

\* the name of an exception, and the exceptions of the collaborators
NoExc == "none"
GuardDelete == "Exception: Can't delete tenant outside it's own schema or the public schema"
GuardCreate == "Exception: Can't create tenant outside the public schema"
GuardUpdate == "Exception: Can't update tenant outside it's own schema or the public schema"
CreateFailed  == "ProgrammingError: CREATE SCHEMA"
DropFailed    == "ProgrammingError: DROP SCHEMA"
MigrateFailed == "CommandError: migrate_schemas"
CloneFailed   == "DatabaseError: clone_schema"
ListenerFailed == "Exception: signal listener"

\* a statement sent to the backend during an operation
Sent(w, kind, names, ok) == [w EXCEPT !.log = Append(@, Stmt(kind, names, ok))]

\* the rest of a method after a call: skipped when the call raised
Try(w1, rest(_)) == IF w1.exc # NoExc THEN w1 ELSE rest(w1)

\* schema_exists(schema_name): a cursor, then the probe of pg_namespace
schema_exists(w, name) ==
    Try(_cursor(w, FALSE), LAMBDA w1 :
        [Sent(w1, "EXISTS", <<name>>, TRUE)
            EXCEPT !.ret = IF name \in w1.namespaces THEN "True" ELSE "False"])

\* a variant of the guard of delete_schema: it lets every active schema through
DeleteGuardRefuses_Never(w, id) == FALSE

\* delete_schema: connection.schema_name not in (self.schema_name, public)
DeleteGuardRefuses(w, id) ==
    w.schema_name \notin {w.objs[id].schema_name, get_public_schema_name}

\* the DROP SCHEMA of delete_schema, after connection.set_schema(name): the
\* backend refuses to drop a schema that is not there (any more)
drop_schema(w, name) ==
    Try(_cursor(set_schema(w, name, TRUE), FALSE), LAMBDA w2 :
        IF name \in w2.namespaces
        THEN [Sent(w2, "DROP", <<quote_name(name)>>, TRUE)
                EXCEPT !.namespaces = @ \ {name}, !.ret = "None"]
        ELSE Raise(Sent(w2, "DROP", <<quote_name(name)>>, FALSE), DropFailed))

\* the log also keeps, for each delete_schema that passes its guard, the name
\* of the tenant's schema and the schema that was active when it was called
GuardPassed(w, id) ==
    Sent(w, "delete_schema", <<w.objs[id].schema_name, w.schema_name>>, TRUE)

\* delete_schema up to and including its schema_exists
delete_schema_probe(w, id) ==
    IF DeleteGuardRefuses(w, id) THEN Raise(w, GuardDelete)
    ELSE schema_exists(GuardPassed(w, id), w.objs[id].schema_name)

\* TenantMixin.delete_schema(allow_delete)
delete_schema(w, id, allow_delete) ==
    Try(delete_schema_probe(w, id),
        LAMBDA w1 :
            IF w1.ret = "True" /\ allow_delete
            THEN drop_schema(w1, w1.objs[id].schema_name)
            ELSE [w1 EXCEPT !.ret = "None"])

\* Signal.send: a listener that raises ends the send
send(w, signal, f) ==
    IF f.listener THEN Raise(w, ListenerFailed)
    ELSE [w EXCEPT !.signals = Append(@, signal)]

\* a variant: CREATE FUNCTION without OR REPLACE, which the backend refuses
\* when the function exists
_create_clone_schema_function_NoReplace(w) ==
    Try(_cursor(w, FALSE), LAMBDA w1 :
        IF w1.clone_function
        THEN Raise(Sent(w1, "CREATE FUNCTION", <<>>, FALSE), "ProgrammingError: CREATE FUNCTION")
        ELSE [Sent(w1, "CREATE FUNCTION", <<>>, TRUE) EXCEPT !.clone_function = TRUE])

\* _create_clone_schema_function: CREATE OR REPLACE FUNCTION clone_schema
_create_clone_schema_function(w) ==
    Try(_cursor(w, FALSE), LAMBDA w1 :
        [Sent(w1, "CREATE FUNCTION", <<>>, TRUE) EXCEPT !.clone_function = TRUE])

\* the call of the clone_schema procedure: it refuses a missing source and an
\* existing destination, and creates all or nothing
call_clone_schema(w, base, new, f) ==
    IF base \in w.namespaces /\ new \notin w.namespaces /\ ~f.clone
    THEN [Sent(w, "CLONE", <<base, new>>, TRUE)
            EXCEPT !.namespaces = @ \cup {new}, !.ret = "None"]
    ELSE Raise(Sent(w, "CLONE", <<base, new>>, FALSE), CloneFailed)

\* clone_schema(base_schema_name, new_schema_name)
clone_schema(w, base, new, f) ==
    Try(_cursor(set_schema_to_public(w), FALSE), LAMBDA w1 :
        Try(IF w1.clone_function THEN w1 ELSE _create_clone_schema_function(w1),
            LAMBDA w2 : call_clone_schema(w2, base, new, f)))

\* call_command('migrate_schemas', schema_name=...): it applies the migrations
\* or raises; when it raises it may have switched the connection to the target
migrate_schemas(w, name, f) ==
    IF f.migrate
    THEN Raise(IF f.on_target THEN set_schema(w, name, TRUE) ELSE w, MigrateFailed)
    ELSE w

\* cursor.execute('CREATE SCHEMA %s'): the backend refuses a name that exists
execute_create(w, id, f) ==
    IF f.create \/ w.objs[id].schema_name \in w.namespaces
    THEN Raise(Sent(w, "CREATE", <<quote_name(w.objs[id].schema_name)>>, FALSE),
               CreateFailed)
    ELSE [Sent(w, "CREATE", <<quote_name(w.objs[id].schema_name)>>, TRUE)
            EXCEPT !.namespaces = @ \cup {w.objs[id].schema_name}]

\* the try block of create_schema
provision(w, id, f) ==
    IF fake_migrations
    THEN Try(clone_schema(w, get_tenant_base_schema, w.objs[id].schema_name, f),
             LAMBDA w1 : send(w1, "post_schema_migrate", f))
    ELSE Try(execute_create(w, id, f),
             LAMBDA w1 : migrate_schemas(w1, w1.objs[id].schema_name, f))

\* except Exception: <handler>; raise
\* w3 is the state the exception was raised in, handler the handler's effect:
\* the exception of the handler itself, if it raises, is the one that leaves.
Handle(w3, handler(_)) ==
    IF w3.exc = NoExc THEN w3
    ELSE Try(handler([w3 EXCEPT !.exc = NoExc]),
             LAMBDA cleaned : [cleaned EXCEPT !.exc = w3.exc])

\* create_schema from its try block on
create_schema_try(w, id, sync_schema, f) ==
    Try(Handle(IF sync_schema THEN provision(w, id, f) ELSE w,
               LAMBDA w3 : delete_schema(w3, id, TRUE)),
        LAMBDA w4 : [set_schema_to_public(w4) EXCEPT !.ret = "None"])

\* create_schema up to and including `check_if_exists and schema_exists(...)`
create_schema_probe(w, id, check_if_exists) ==
    IF _check_schema_name(w.objs[id].schema_name) # "none"
    THEN Raise(w, _check_schema_name(w.objs[id].schema_name))
    ELSE Try(_cursor(w, FALSE), LAMBDA w1 :
             IF check_if_exists THEN schema_exists(w1, w1.objs[id].schema_name) ELSE w1)

\* TenantMixin.create_schema(check_if_exists, sync_schema)
create_schema(w, id, check_if_exists, sync_schema, f) ==
    Try(create_schema_probe(w, id, check_if_exists),
        LAMBDA w2 :
            IF check_if_exists /\ w2.ret = "True" THEN [w2 EXCEPT !.ret = "False"]
            ELSE create_schema_try(w2, id, sync_schema, f))

\* the schema_name values of the rows other than id's
OtherRowNames(w, id) == {r.schema_name : r \in {x \in w.rows : x.id # id}}

\* models.Model.save: INSERT or UPDATE of the row through a cursor of the
\* connection; schema_name is unique and not null
model_save(w, id) ==
    Try(_cursor(w, FALSE), LAMBDA w1 :
        IF w1.objs[id].schema_name = NoneName
           \/ w1.objs[id].schema_name \in OtherRowNames(w1, id)
        THEN Raise(Sent(w1, "WRITE ROW", <<w1.objs[id].schema_name>>, FALSE),
                   "IntegrityError")
        ELSE [Sent(w1, "WRITE ROW", <<w1.objs[id].schema_name>>, TRUE)
                EXCEPT !.rows = {x \in @ : x.id # id}
                                \cup {[id |-> id, schema_name |-> w1.objs[id].schema_name]},
                       !.objs[id].pk = TRUE])

\* models.Model.delete: refuses an instance without a primary key, else
\* deletes the row and clears the primary key
model_delete(w, id) ==
    IF ~w.objs[id].pk THEN Raise(w, "AssertionError")
    ELSE Try(_cursor(w, FALSE), LAMBDA w1 :
        [Sent(w1, "DELETE ROW", <<w1.objs[id].schema_name>>, TRUE)
            EXCEPT !.rows = {x \in @ : x.id # id}, !.objs[id].pk = FALSE])

\* a variant of delete: the row is deleted first, the namespace after it
delete_RowFirst(w, id, force_drop) ==
    Try(model_delete(w, id),
        LAMBDA w1 : [delete_schema(w1, id, w.objs[id].auto_drop_schema \/ force_drop)
                        EXCEPT !.ret = "None"])

\* TenantMixin.delete(force_drop)
delete(w, id, force_drop) ==
    Try(delete_schema(w, id, w.objs[id].auto_drop_schema \/ force_drop),
        LAMBDA w1 : [model_delete(w1, id) EXCEPT !.ret = "None"])

\* a variant of save's try block: the namespace is created, no signal is sent
create_and_notify_Silent(w, id, f) == create_schema(w, id, TRUE, TRUE, f)

\* create_schema(check_if_exists=True) followed by post_schema_sync.send
create_and_notify(w, id, f) ==
    Try(create_schema(w, id, TRUE, TRUE, f),
        LAMBDA w1 : send(w1, "post_schema_sync", f))

\* a variant of the guard of save: a new tenant may be saved from any schema
CreateGuardRefuses_Never(w, id) == FALSE

\* save: is_new and connection.schema_name != get_public_schema_name()
CreateGuardRefuses(w, id) ==
    ~w.objs[id].pk /\ w.schema_name # get_public_schema_name

\* a variant of the second guard of save: a saved tenant may be saved from
\* any schema
UpdateGuardRefuses_Never(w, id) == FALSE

\* save: not is_new and connection.schema_name not in (self.schema_name, public)
UpdateGuardRefuses(w, id) ==
    w.objs[id].pk /\ w.schema_name \notin {w.objs[id].schema_name, get_public_schema_name}

\* a variant of save's handler: it re-raises without deleting what was created
save_cleanup_Nothing(w, id) == w

\* save's handler for a new tenant: self.delete(force_drop=True)
save_cleanup(w, id) == delete(w, id, TRUE)

\* save's handler for a tenant that was saved before: the namespace is
\* dropped and self.schema_name set to None
save_cleanup_existing(w, id) ==
    Try(delete_schema(w, id, TRUE),
        LAMBDA w4 : [w4 EXCEPT !.objs[id].schema_name = NoneName])

\* save of a new tenant, after super().save()
save_new(w, id, f) ==
    IF w.objs[id].auto_create_schema
    THEN Try(Handle(create_and_notify(w, id, f), LAMBDA w2 : save_cleanup(w2, id)),
             LAMBDA w3 : [w3 EXCEPT !.ret = "None"])
    ELSE send(w, "schema_needs_to_be_sync", f)

\* save of a tenant that was saved before, after super().save()
save_existing(w, id, f) ==
    Try(schema_exists(w, w.objs[id].schema_name), LAMBDA w2 :
        IF w2.ret = "False" /\ w2.objs[id].auto_create_schema
        THEN Try(Handle(create_and_notify(w2, id, f),
                        LAMBDA w3 : save_cleanup_existing(w3, id)),
                 LAMBDA w5 : [w5 EXCEPT !.ret = "None"])
        ELSE [w2 EXCEPT !.ret = "None"])

\* TenantMixin.save: is_new is read before super().save()
save(w, id, f) ==
    IF CreateGuardRefuses(w, id) THEN Raise(w, GuardCreate)
    ELSE IF UpdateGuardRefuses(w, id) THEN Raise(w, GuardUpdate)
    ELSE Try(model_save(w, id), LAMBDA w1 :
             IF ~w.objs[id].pk THEN save_new(w1, id, f) ELSE save_existing(w1, id, f))

---------------------------------------------------------------------------
(* The tenant life cycle on one connection *)

\* the instances the life cycle acts on
ProvObjs == {"A", "B"}

\* the names a caller gives to clone_schema as the new schema
CloneArgs == {BadName}

\* at most one collaborator fails during one call, and only one that the
\* configured strategy (migrate or clone) calls
FaultCases ==
    {f \in Faults :
        /\ Cardinality({k \in {"create", "migrate", "clone", "listener"} : f[k]}) <= 1
        /\ f.on_target => f.migrate
        /\ f.clone => fake_migrations
        /\ (f.create \/ f.migrate) => ~fake_migrations}

\* the calls below use the router themselves: the caller's cursor is an old one
Internal ==
    /\ router_call' = "internal"
    /\ cursor_fresh' = FALSE
    /\ UNCHANGED <<tx_aborted, tx_start_path, cursor_open, vars_cfg, vars_val, vars_ctx>>

Save(id, f) ==
    /\ Becomes(save(World, id, f))
    /\ last' = Op("save", id, FALSE)
    /\ Internal

Delete(id, force_drop) ==
    /\ Becomes(delete(World, id, force_drop))
    /\ last' = Op("delete", id, force_drop)
    /\ Internal

DeleteSchema(id, allow_delete) ==
    /\ Becomes(delete_schema(World, id, allow_delete))
    /\ last' = Op("delete_schema", id, allow_delete)
    /\ Internal

CreateSchema(id, check_if_exists, f) ==
    /\ Becomes(create_schema(World, id, check_if_exists, TRUE, f))
    /\ last' = Op("create_schema", id, check_if_exists)
    /\ Internal

\* create_schema(sync_schema=False): nothing is provisioned
CreateSchemaNoSync(id, check_if_exists) ==
    /\ Becomes(create_schema(World, id, check_if_exists, FALSE, NoFaults))
    /\ last' = Op("create_schema(sync_schema=False)", id, check_if_exists)
    /\ Internal

\* utils.clone_schema called directly, from the base schema of the
\* configuration (there is one only where tenants are created by cloning)
CloneSchema(new) ==
    /\ fake_migrations
    /\ Becomes(clone_schema(World, get_tenant_base_schema, new, NoFaults))
    /\ last' = Op("clone_schema", "-", FALSE)
    /\ Internal

InitProv ==
    /\ InitConnection
    /\ namespaces = {get_public_schema_name, get_tenant_base_schema}
    /\ rows = {}
    /\ clone_function = FALSE
    /\ objs = InitObjs
    /\ limit_set_calls \in BOOLEAN
    /\ fake_migrations \in BOOLEAN
    /\ vname = <<>>
    /\ vresult = "unused"
    /\ scopes = <<>>
    /\ workers = <<>>
    /\ last = Op("__init__", "-", TRUE)

NextProv ==
    \/ \E id \in ProvObjs : SetTenant(id, TRUE)
    \/ SetSchemaToPublic
    \/ \E id \in ProvObjs, f \in FaultCases : Save(id, f)
    \/ \E id \in ProvObjs, force_drop \in BOOLEAN : Delete(id, force_drop)
    \/ \E id \in ProvObjs, allow_delete \in BOOLEAN : DeleteSchema(id, allow_delete)
    \/ \E id \in ProvObjs, check_if_exists \in BOOLEAN, f \in FaultCases :
            CreateSchema(id, check_if_exists, f)
    \/ \E id \in ProvObjs, check_if_exists \in BOOLEAN : CreateSchemaNoSync(id, check_if_exists)
    \/ \E new \in CloneArgs : CloneSchema(new)

SpecProv == InitProv /\ [][NextProv]_vars

---------------------------------------------------------------------------
(* Claims about the router and the cursor *)

\* a quoted identifier without its first and last character
Unquote(q) == SubSeq(q, 2, Len(q) - 1)

IsQuoted(q) == Len(q) >= 2 /\ q[1] = "\"" /\ q[Len(q)] = "\""

Unquoted(path) == [i \in 1..Len(path) |-> Unquote(path[i])]

Elements(seq) == {seq[i] : i \in 1..Len(seq)}

\* the path the specification gives for an active schema and a flag
ExpectedPath(active, include_shared) ==
    IF active = get_public_schema_name THEN <<get_public_schema_name>> \o EXTRA_SEARCH_PATHS
    ELSE IF include_shared THEN <<active, get_public_schema_name>> \o EXTRA_SEARCH_PATHS
    ELSE <<active>> \o EXTRA_SEARCH_PATHS

\* the last operation was a query that ran, through a cursor obtained after
\* the most recent router call
FreshQueryRan == last.op = "execute" /\ outcome.exc = "none" /\ cursor_fresh

\* C1: a query issued through a cursor obtained after the most recent
\* set_tenant / set_schema / set_schema_to_public call runs with the session's
\* search path equal to the path of that call.
C1_QueryRunsOnLatestPath ==
    FreshQueryRan =>
        /\ Len(session_path) = Len(ExpectedPath(schema_name, include_public_schema))
        /\ \A i \in 1..Len(session_path) : IsQuoted(session_path[i])
        /\ Unquoted(session_path) = ExpectedPath(schema_name, include_public_schema)

\* the last operation was a cursor acquisition that sent SET search_path
CursorSentSet == last.op = "cursor" /\ Len(log) = 1 /\ log[1].kind = "SET"

\* C2: the path a cursor acquisition applies is [shared, extras] on the shared
\* schema, [active, shared, extras] with include-shared, [active, extras]
\* otherwise, each identifier in double quotes; after set_tenant(A) it holds no
\* other tenant's namespace, and after set_schema_to_public() it is
\* [shared, extras].
C2_AppliedPathShape ==
    CursorSentSet =>
        LET applied == log[1].names IN
        /\ \A i \in 1..Len(applied) : IsQuoted(applied[i])
        /\ schema_name = get_public_schema_name
              => Unquoted(applied) = <<get_public_schema_name>> \o EXTRA_SEARCH_PATHS
        /\ (schema_name # get_public_schema_name /\ include_public_schema)
              => Unquoted(applied) = <<schema_name, get_public_schema_name>> \o EXTRA_SEARCH_PATHS
        /\ (schema_name # get_public_schema_name /\ ~include_public_schema)
              => Unquoted(applied) = <<schema_name>> \o EXTRA_SEARCH_PATHS
        /\ router_call = "set_schema_to_public"
              => Unquoted(applied) = <<get_public_schema_name>> \o EXTRA_SEARCH_PATHS
        /\ router_call = "set_tenant"
              => \A b \in ObjIds :
                    objs[b].schema_name \notin
                        ({objs[tenant.id].schema_name, get_public_schema_name}
                            \cup Elements(EXTRA_SEARCH_PATHS))
                    => objs[b].schema_name \notin Elements(Unquoted(applied))

\* C2 witness: a cursor obtained after set_tenant(A, include_public=False)
\* applied a path
C2_Witness ==
    /\ CursorSentSet
    /\ log[1].ok
    /\ router_call = "set_tenant"
    /\ tenant = TenantRef("A")
    /\ ~include_public_schema

\* C3: a cursor acquisition with the active schema None or empty raises
\* ImproperlyConfigured and sends no SET; no cursor is handed out, so no query
\* through a cursor obtained since the last router call runs, while the
\* active schema is empty.
C3_NoCursorWithoutSchema ==
    /\ (last.op = "cursor" /\ schema_name \in {NoneName, EmptyName})
          => (outcome.exc = "ImproperlyConfigured" /\ log = <<>>)
    /\ cursor_fresh => schema_name \notin {NoneName, EmptyName}
    /\ FreshQueryRan => schema_name \notin {NoneName, EmptyName}

\* C3 witness: a cursor was asked for after set_schema('') and the call raised
C3_Witness ==
    /\ last.op = "cursor"
    /\ schema_name = EmptyName
    /\ router_call = "set_schema"
    /\ outcome.exc = "ImproperlyConfigured"

\* the names the validator rejects with a ValidationError
RejectedName(name) == _check_schema_name(name) = "ValidationError"

\* C4: set_tenant and set_schema with an invalid schema name fail with a
\* validation error and leave the active schema, the tenant handle, the
\* include-shared flag and the dirty flag as they were.
C4_InvalidNameFailsFast ==
    [][ /\ \A name \in SchemaArgs, include_public \in BOOLEAN :
              (RejectedName(name) /\ SetSchema(name, include_public))
                  => /\ outcome'.exc = "ValidationError"
                     /\ UNCHANGED <<schema_name, tenant, include_public_schema, search_path_set>>
        /\ \A id \in ObjIds, include_public \in BOOLEAN :
              (RejectedName(objs[id].schema_name) /\ SetTenant(id, include_public))
                  => /\ outcome'.exc = "ValidationError"
                     /\ UNCHANGED <<schema_name, tenant, include_public_schema, search_path_set>>
      ]_vars

---------------------------------------------------------------------------
(* Claims about namespaces and tenant rows *)

\* the names in one statement, without the quotes of quote_name and protect_case
NamesOf(stmt) ==
    {IF IsQuoted(stmt.names[i]) THEN Unquote(stmt.names[i]) ELSE stmt.names[i] :
        i \in 1..Len(stmt.names)}

\* the statements that carry namespace names to the backend
CarriesNames(stmt) == stmt.kind \in {"CREATE", "DROP", "CLONE", "SET"}

\* C5: every namespace name that reaches the backend in a CREATE SCHEMA, a
\* DROP SCHEMA, a clone_schema call or a SET search_path passes the
\* schema-name validator.
C5_OnlyValidNamesReachBackend ==
    \A i \in 1..Len(log) :
        CarriesNames(log[i]) => \A n \in NamesOf(log[i]) : _is_valid_schema_name(n)

\* the failures of the try block of create_schema and of save
ProvisioningFailures == {CreateFailed, MigrateFailed, CloneFailed, ListenerFailed}

\* the operation got as far as creating or cloning the namespace
Provisioned(l) == \E i \in 1..Len(l) : l[i].kind \in {"CREATE", "CLONE"}

\* C7: whenever create_schema raises during provisioning, from any active
\* schema, the exception that reaches the caller is the provisioning failure
\* and the tenant's namespace does not exist when the call returns.
C7_FailedProvisioningLeavesNothing ==
    [][ (last'.op = "create_schema" /\ outcome'.exc # NoExc /\ Provisioned(log'))
            => /\ outcome'.exc \in ProvisioningFailures
               /\ objs[last'.obj].schema_name \notin namespaces'
      ]_vars

\* C8: when save of a new tenant with auto_create_schema raises a provisioning
\* failure, there is afterwards neither a namespace nor a row for that tenant.
C8_FailedSaveLeavesNothing ==
    [][ (/\ last'.op = "save"
         /\ ~objs[last'.obj].pk
         /\ objs[last'.obj].auto_create_schema
         /\ outcome'.exc \in ProvisioningFailures)
            => /\ objs[last'.obj].schema_name \notin namespaces'
               /\ \A r \in rows' : r.id # last'.obj
      ]_vars

\* C8 witness: save of the new tenant A created the namespace, the migration
\* runner raised, and the namespace and the row were removed again
C8_Witness ==
    /\ last.op = "save"
    /\ last.obj = "A"
    /\ outcome.exc = MigrateFailed
    /\ \E i \in 1..Len(log) : log[i].kind = "CREATE" /\ log[i].ok
    /\ \E i \in 1..Len(log) : log[i].kind = "DROP"
    /\ \E i \in 1..Len(log) : log[i].kind = "DELETE ROW"
    /\ T1 \notin namespaces
    /\ \A r \in rows : r.id # "A"

\* every DROP SCHEMA in the log follows a delete_schema that was called on
\* the schema it drops, or on the public schema
DropsAreGuarded(l) ==
    \A i \in 1..Len(l) :
        l[i].kind = "DROP" =>
            \E j \in 1..(i - 1) :
                /\ l[j].kind = "delete_schema"
                /\ \A k \in (j + 1)..(i - 1) : l[k].kind # "delete_schema"
                /\ NamesOf(l[i]) = {l[j].names[1]}
                /\ l[j].names[2] \in {l[j].names[1], get_public_schema_name}

\* C9: delete_schema for tenant T, called while the active schema is neither
\* T's schema nor the public one, raises, sends no DROP, leaves the namespaces
\* and the active schema as they were; and a DROP SCHEMA for T is only sent
\* when the active schema at the call was T's own or the public one.
C9_DeleteSchemaGuarded ==
    [][ /\ (/\ last'.op = "delete_schema"
            /\ schema_name \notin {objs[last'.obj].schema_name, get_public_schema_name})
               => /\ outcome'.exc = GuardDelete
                  /\ \A i \in 1..Len(log') : log'[i].kind # "DROP"
                  /\ namespaces' = namespaces
                  /\ schema_name' = schema_name
        /\ DropsAreGuarded(log')
      ]_vars

\* C9 witness: delete_schema of tenant A (t1) was called on schema t2 and
\* refused, and the namespace t1 is still there
C9_Witness ==
    /\ last.op = "delete_schema"
    /\ last.obj = "A"
    /\ schema_name = T2
    /\ outcome.exc = GuardDelete
    /\ T1 \in namespaces
    /\ log = <<>>

\* C10: save of an unsaved tenant while the active schema is not the public
\* one is rejected before anything happens: no statement is sent, no row is
\* written, no namespace is created and no signal is sent.
C10_NewTenantOnlyFromPublic ==
    [][ (/\ last'.op = "save"
         /\ ~objs[last'.obj].pk
         /\ schema_name # get_public_schema_name)
            => /\ outcome'.exc = GuardCreate
               /\ log' = <<>>
               /\ signals' = <<>>
               /\ rows' = rows
               /\ namespaces' = namespaces
               /\ objs' = objs
      ]_vars

\* C10 witness: save of the unsaved tenant A was called on schema t2 and
\* rejected
C10_Witness ==
    /\ last.op = "save"
    /\ last.obj = "A"
    /\ ~objs["A"].pk
    /\ schema_name = T2
    /\ outcome.exc = GuardCreate
    /\ log = <<>>
    /\ signals = <<>>

---------------------------------------------------------------------------
(* The validator on its own: one candidate name, checked once *)

\* the longest of the exhaustively enumerated candidate names
MaxLen == 3

\* how far the lengths of the long candidate names reach around the limit
LenMargin == 2

\* letters, a digit, the underscore, a character outside the classes, and a
\* control character
ValidatorAlphabet == {"a", "p", "G", "_", "1", "-", "\n"}

ShortNames == UNION {[1..n -> ValidatorAlphabet] : n \in 0..MaxLen}

\* head, then "a" repeated, then tail: n characters in all
Padded(head, n, tail) ==
    head \o [i \in 1..(n - Len(head) - Len(tail)) |-> "a"] \o tail

LongNames ==
    {Padded(head, n, tail) :
        head \in {<<>>, <<"1">>, <<"p", "G", "_">>},
        n \in (MaxRepeat + 1 - LenMargin)..(MaxRepeat + 1 + LenMargin),
        tail \in {<<>>, <<"\n">>, <<"-">>, <<"_", "9">>}}

ValidatorInputs == ShortNames \cup LongNames

InitValidator ==
    /\ InitConnection
    /\ namespaces = {get_public_schema_name}
    /\ rows = {}
    /\ clone_function = FALSE
    /\ objs = InitObjs
    /\ limit_set_calls = FALSE
    /\ fake_migrations = FALSE
    /\ vname \in ValidatorInputs
    /\ vresult = "pending"
    /\ scopes = <<>>
    /\ workers = <<>>
    /\ last = Op("__init__", "-", TRUE)

\* _check_schema_name(vname): it returns, or raises ValidationError
Validate ==
    /\ vresult = "pending"
    /\ vresult' = IF _check_schema_name(vname) = "none" THEN "accepted" ELSE "rejected"
    /\ UNCHANGED <<vars_conn, vars_sess, vars_db, vars_cfg, vars_obs, vname, vars_ctx>>

NextValidator == Validate

SpecValidator == InitValidator /\ [][NextValidator]_vars

\* what the specification's identifier contract accepts
ContractAccepts(n) ==
    /\ Len(n) >= 1
    /\ Len(n) <= 63
    /\ n[1] \in LowerCase \cup UpperCase \cup {"_"}
    /\ \A i \in 1..Len(n) : n[i] \in LowerCase \cup UpperCase \cup Digits \cup {"_"}
    /\ ~(Len(n) >= 3 /\ n[1] \in {"p", "P"} /\ n[2] \in {"g", "G"} /\ n[3] = "_")

\* C6: the validator accepts a name iff it is 1 to 63 characters long, starts
\* with a letter or underscore, holds only letters, digits and underscores,
\* and does not start with pg_ in any letter case.
C6_ValidatorMatchesContract ==
    vresult \in {"accepted", "rejected"} => (vresult = "accepted" <=> ContractAccepts(vname))

---------------------------------------------------------------------------
(* Saving a tenant again, after its schema_name attribute was assigned *)

T3 == <<"t","3">>

\* the names a caller assigns to schema_name, or makes the active schema
RenameArgs == {T1, T2, T3}

\* tenant.schema_name = name: the instance in memory changes, the row does not
AssignSchemaName(id, name) ==
    /\ objs' = [objs EXCEPT ![id].schema_name = name]
    /\ last' = Op("schema_name =", id, FALSE)
    /\ outcome' = [exc |-> NoExc, ret |-> "None"]
    /\ log' = <<>>
    /\ signals' = <<>>
    /\ UNCHANGED <<vars_conn, vars_sess, namespaces, rows, clone_function,
                   vars_cfg, vars_val, vars_ctx>>

InitUpdate ==
    /\ InitConnection
    /\ namespaces = {get_public_schema_name}
    /\ rows = {}
    /\ clone_function = FALSE
    /\ objs = InitObjs
    /\ limit_set_calls = FALSE
    /\ fake_migrations = FALSE
    /\ vname = <<>>
    /\ vresult = "unused"
    /\ scopes = <<>>
    /\ workers = <<>>
    /\ last = Op("__init__", "-", TRUE)

NextUpdate ==
    \/ \E id \in ProvObjs : SetTenant(id, TRUE)
    \/ \E name \in RenameArgs : SetSchema(name, TRUE)
    \/ SetSchemaToPublic
    \/ \E id \in ProvObjs, name \in RenameArgs : AssignSchemaName(id, name)
    \/ \E id \in ProvObjs : Save(id, NoFaults)

SpecUpdate == InitUpdate /\ [][NextUpdate]_vars

\* the schema_name in the row of tenant id
PersistedNames(rs, id) == {r.schema_name : r \in {x \in rs : x.id = id}}

\* C11: save of an existing tenant T while the active schema is neither T's
\* schema nor the public one raises the update guard's exception and leaves
\* the rows as they were; a save of an existing tenant returns normally only
\* when the active schema is T's own or the public one.
C11_UpdateOnlyFromOwnOrPublic ==
    [][ (last'.op = "save" /\ objs[last'.obj].pk)
            => /\ schema_name \notin {objs[last'.obj].schema_name, get_public_schema_name}
                    => /\ outcome'.exc = GuardUpdate
                       /\ rows' = rows
                       /\ log' = <<>>
               /\ outcome'.exc = NoExc
                    => schema_name \in {objs[last'.obj].schema_name, get_public_schema_name}
      ]_vars

\* C11 witness: tenant A, saved with schema t1, was saved again on schema t2
\* and refused
C11_Witness ==
    /\ last.op = "save"
    /\ last.obj = "A"
    /\ objs["A"].pk
    /\ objs["A"].schema_name = T1
    /\ PersistedNames(rows, "A") = {T1}
    /\ schema_name = T2
    /\ outcome.exc = GuardUpdate

\* C12: for a tenant whose row names a namespace that exists, a save that
\* would change the schema_name of the row, made while the active schema is
\* neither that namespace nor the public one, raises and leaves the
\* schema_name of the row as it was.
C12_ProvisionedNameImmutable ==
    [][ (/\ last'.op = "save"
         /\ PersistedNames(rows, last'.obj) # {}
         /\ PersistedNames(rows, last'.obj) \subseteq namespaces
         /\ objs[last'.obj].schema_name \notin PersistedNames(rows, last'.obj)
         /\ schema_name \notin PersistedNames(rows, last'.obj) \cup {get_public_schema_name})
            => /\ outcome'.exc # NoExc
               /\ PersistedNames(rows', last'.obj) = PersistedNames(rows, last'.obj)
      ]_vars

---------------------------------------------------------------------------
(* Claims about create_schema, delete and the signals of save *)

\* the statements that create or drop a namespace or a function
IsDDL(stmt) == stmt.kind \in {"CREATE", "DROP", "CLONE", "CREATE FUNCTION"}

\* C13: create_schema(check_if_exists=True) called on a name without a
\* namespace returns True and the namespace exists afterwards; called again
\* right after, it returns False, sends no DDL, and leaves the namespaces and
\* the router state as they were.
C13_CreateSchemaIdempotent ==
    [][ (last'.op = "create_schema" /\ last'.flag)
            => /\ (objs[last'.obj].schema_name \notin namespaces /\ outcome'.exc = NoExc)
                    => /\ outcome'.ret = "True"
                       /\ objs[last'.obj].schema_name \in namespaces'
               /\ (/\ last.op = "create_schema"
                   /\ last.flag
                   /\ last.obj = last'.obj
                   /\ outcome.exc = NoExc)
                    => /\ outcome' = [exc |-> NoExc, ret |-> "False"]
                       /\ \A i \in 1..Len(log') : ~IsDDL(log'[i])
                       /\ namespaces' = namespaces
                       /\ UNCHANGED <<schema_name, tenant, include_public_schema>>
      ]_vars

\* the positions of the statements of one kind in a log
Positions(l, kind) == {i \in 1..Len(l) : l[i].kind = kind}

\* C14: delete(force_drop) runs the drop step first. When the guard of the
\* drop step refuses, the call raises and rows and namespaces stay as they
\* were; otherwise the namespace is dropped iff it exists and auto_drop_schema
\* or force_drop holds. The row is deleted only after the drop step returned:
\* after the guard was passed and after the DROP, if there is one.
C14_DropBeforeRowDelete ==
    [][ last'.op = "delete" =>
            LET name == objs[last'.obj].schema_name
                dropping == /\ name \in namespaces
                            /\ (objs[last'.obj].auto_drop_schema \/ last'.flag)
            IN  /\ schema_name \notin {name, get_public_schema_name}
                    => /\ outcome'.exc = GuardDelete
                       /\ rows' = rows
                       /\ namespaces' = namespaces
                /\ schema_name \in {name, get_public_schema_name}
                    => /\ namespaces' = IF dropping THEN namespaces \ {name} ELSE namespaces
                       /\ dropping <=> Positions(log', "DROP") # {}
                /\ \A i \in Positions(log', "DELETE ROW") :
                        /\ \E j \in Positions(log', "delete_schema") : j < i
                        /\ \A j \in Positions(log', "DROP") : j < i
                /\ rows' # rows => outcome'.exc = NoExc
      ]_vars

\* C14 witness: delete(force_drop=True) of the saved tenant A dropped the
\* namespace t1 and then deleted the row
C14_Witness ==
    /\ last = Op("delete", "A", TRUE)
    /\ outcome.exc = NoExc
    /\ Positions(log, "DROP") # {}
    /\ Positions(log, "DELETE ROW") # {}
    /\ T1 \notin namespaces
    /\ rows = {}

\* the signals of one kind among the signals sent
Among(sigs, kinds) == SelectSeq(sigs, LAMBDA x : x \in kinds)

\* the last call was save, on an instance that had no primary key
SavedNew == last'.op = "save" /\ ~objs[last'.obj].pk

---------------------------------------------------------------------------
(* Scopes: schema_context, tenant_context and `with tenant:` *)

\* how deep the caller nests with-blocks
MaxDepth == 2

\* the router state a caller sees
RouterState(w) ==
    [tenant |-> w.tenant, schema_name |-> w.schema_name,
     include_public_schema |-> w.include_public_schema]

\* one with-block: the context manager, its local variables previous_tenant
\* and previous_include_public (schema_context, tenant_context), the instance
\* it was entered on (`with tenant:`), and the router state at its entry
Frame(kind, obj) ==
    [kind |-> kind, obj |-> obj, previous_tenant |-> tenant,
     previous_include_public |-> include_public_schema, entered |-> RouterState(World)]

\* a variant of the finally block: the connection goes back to public
context_exit_ToPublic(w, frame) == set_schema_to_public(w)

\* the finally block of schema_context and of tenant_context
context_exit(w, frame) ==
    IF frame.previous_tenant = NoTenant THEN set_schema_to_public(w)
    ELSE set_tenant(w, frame.previous_tenant, frame.previous_include_public)

\* TenantMixin.__enter__: self._previous_tenant = connection.tenant; activate()
__enter__(w, id) ==
    set_tenant([w EXCEPT !.objs[id]._previous_tenant = w.tenant], TenantRef(id), TRUE)

\* TenantMixin.__exit__: connection.set_tenant(self._previous_tenant)
__exit__(w, id) == set_tenant(w, w.objs[id]._previous_tenant, TRUE)

\* entering a with-block calls the router
Entered(frame, op) ==
    /\ Len(scopes) < MaxDepth
    /\ scopes' = Append(scopes, frame)
    /\ UNCHANGED workers
    /\ router_call' = op
    /\ cursor_fresh' = FALSE
    /\ UNCHANGED <<tx_aborted, tx_start_path, cursor_open, vars_cfg, vars_val>>

\* with schema_context(name, include_public):
SchemaContextEnter(name, include_public) ==
    /\ Becomes(set_schema(World, name, include_public))
    /\ last' = Op("schema_context", "-", include_public)
    /\ Entered(Frame("schema_context", "-"), "set_schema")

\* with tenant_context(tenant, include_public):
TenantContextEnter(id, include_public) ==
    /\ Becomes(set_tenant(World, TenantRef(id), include_public))
    /\ last' = Op("tenant_context", id, include_public)
    /\ Entered(Frame("tenant_context", "-"), "set_tenant")

\* with tenant:
WithEnter(id) ==
    /\ Becomes(__enter__(World, id))
    /\ last' = Op("__enter__", id, TRUE)
    /\ Entered(Frame("with", id), "set_tenant")

\* the innermost with-block ends, by a normal return of its body or by an
\* exception in it, which goes on to the caller
ScopeExit(raised) ==
    /\ scopes # <<>>
    /\ LET frame == scopes[Len(scopes)]
           w == IF frame.kind = "with" THEN __exit__(World, frame.obj)
                ELSE context_exit(World, frame)
       IN  /\ Becomes([w EXCEPT !.exc = IF raised THEN "BodyError" ELSE NoExc])
           /\ last' = Op(frame.kind \o " exit", frame.obj, raised)
    /\ scopes' = SubSeq(scopes, 1, Len(scopes) - 1)
    /\ UNCHANGED workers
    /\ router_call' = "set_tenant"
    /\ cursor_fresh' = FALSE
    /\ UNCHANGED <<tx_aborted, tx_start_path, cursor_open, vars_cfg, vars_val>>

InitScopes ==
    /\ InitConnection
    /\ namespaces = {get_public_schema_name, T1, T2}
    /\ rows = {}
    /\ clone_function = FALSE
    /\ objs = InitObjs
    /\ limit_set_calls = FALSE
    /\ fake_migrations = FALSE
    /\ vname = <<>>
    /\ vresult = "unused"
    /\ scopes = <<>>
    /\ workers = <<>>
    /\ last = Op("__init__", "-", TRUE)

NextScopes ==
    \/ \E include_public \in BOOLEAN : SetTenant("B", include_public)
    \/ SetSchemaToPublic
    \/ \E include_public \in BOOLEAN : SchemaContextEnter(T1, include_public)
    \/ \E include_public \in BOOLEAN : TenantContextEnter("B", include_public)
    \/ \E id \in ProvObjs : WithEnter(id)
    \/ \E raised \in BOOLEAN : ScopeExit(raised)

SpecScopes == InitScopes /\ [][NextScopes]_vars

\* the last step ended a with-block of one of the kinds
Exited(kinds) == last'.op \in {k \o " exit" : k \in kinds}

\* C16: when a schema_context or tenant_context block ends, by return or by
\* exception, at any depth and whatever router calls its body made, the
\* tenant handle, the active schema and the include-public flag are those of
\* its entry, and search_path_set is cleared.
C16_ContextsRestore ==
    [][ Exited({"schema_context", "tenant_context"})
            => /\ RouterState(World)' = scopes[Len(scopes)].entered
               /\ search_path_set' = FALSE
               /\ outcome'.exc = IF last'.flag THEN "BodyError" ELSE NoExc
      ]_vars

\* C16 witness: a tenant_context block nested in another block ended by an
\* exception, with a router state differing from the one at its entry, and
\* the include-public flag is again False
C16_Witness ==
    /\ last = Op("tenant_context exit", "-", TRUE)
    /\ outcome.exc = "BodyError"
    /\ Len(scopes) = 1
    /\ router_call = "set_tenant"
    /\ ~include_public_schema
    /\ schema_name = T1
    /\ ~search_path_set

\* C17: when a `with tenant:` block ends, by return or by exception, also
\* nested and entered again on the same instance, the tenant handle and the
\* include-public flag of the connection are those of its entry.
C17_WithTenantRestores ==
    [][ Exited({"with"})
            => /\ tenant' = scopes[Len(scopes)].entered.tenant
               /\ include_public_schema' = scopes[Len(scopes)].entered.include_public_schema
      ]_vars

---------------------------------------------------------------------------
(* The middleware: resolving the tenant of a request *)

\* request.user: no user attribute or None, AnonymousUser, a staff user, an
\* ordinary user with a tenant, an ordinary user without one
Users == {"none", "anon", "staff", "bound", "unbound"}

\* user.is_authenticated()
is_authenticated(user) == user \in {"staff", "bound", "unbound"}

\* user.is_staff
is_staff(user) == user = "staff"

\* the tenant instance whose row names user as its user
BoundTo(user) == IF user = "bound" THEN "A" ELSE "-"

\* the row of the tenant of the public schema, and the rows of A and B
PublicRow == [id |-> "P", schema_name |-> get_public_schema_name]
TenantRows == {PublicRow, [id |-> "A", schema_name |-> T1], [id |-> "B", schema_name |-> T2]}

\* a tenant instance loaded from a row
Loaded(r) == [kind |-> "row", id |-> r.id, schema_name |-> r.schema_name]

\* the table of the tenant model is in the public schema only: the backend
\* finds it when that schema is on the session's search path
TableVisible(w) ==
    \E i \in 1..Len(w.session_path) :
        w.session_path[i] \in {get_public_schema_name, protect_case(get_public_schema_name)}

\* QuerySet.get on the rows found: the instance, or DoesNotExist. The log
\* keeps the search path the query ran on.
get_one(w, found) ==
    IF ~TableVisible(w)
    THEN Raise(Sent(w, "SELECT ROW", w.session_path, FALSE), "ProgrammingError: relation")
    ELSE IF found = {} THEN Raise(Sent(w, "SELECT ROW", w.session_path, TRUE), "DoesNotExist")
    ELSE [Sent(w, "SELECT ROW", w.session_path, TRUE)
            EXCEPT !.ret = Loaded(CHOOSE r \in found : TRUE)]

\* tenant_model.objects.get(user=user)
get_by_user(w, user) ==
    Try(_cursor(w, FALSE), LAMBDA w1 : get_one(w1, {r \in w1.rows : r.id = BoundTo(user)}))

\* tenant_model.objects.get(schema_name=name)
get_by_schema_name(w, name) ==
    Try(_cursor(w, FALSE), LAMBDA w1 : get_one(w1, {r \in w1.rows : r.schema_name = name}))

\* TenantMainMiddleware.get_tenant: for a user that is not authenticated or is
\* staff the function ends without a return statement
get_tenant(w, user) ==
    IF user = "none" THEN Raise(w, "DoesNotExist")
    ELSE IF is_authenticated(user) /\ ~is_staff(user) THEN get_by_user(w, user)
    ELSE [w EXCEPT !.ret = NoTenant]

\* TenantMainMiddleware.TENANT_NOT_FOUND_EXCEPTION
TENANT_NOT_FOUND_EXCEPTION == "Http404"

\* `except self.TENANT_NOT_FOUND_EXCEPTION or self.NO_TENANT_EXCEPTION`: the
\* value of the or-expression is its first operand, a class
CaughtByFirstClause(exc) == exc = TENANT_NOT_FOUND_EXCEPTION

\* `except Exception as e: print(e); print(e.message)`: exceptions have a
\* message attribute on Python 2 only, where the function then returns None
print_handler(w, py2) ==
    IF py2 THEN [w EXCEPT !.exc = NoExc, !.ret = NoTenant]
    ELSE Raise(w, "AttributeError")

\* the fallback of DefaultTenantMiddleware.get_tenant
default_tenant(w, default) ==
    get_by_schema_name([w EXCEPT !.exc = NoExc],
                       IF default = NoneName THEN get_public_schema_name ELSE default)

\* the except clauses of DefaultTenantMiddleware.get_tenant
default_handlers(w, default, py2) ==
    IF w.exc = NoExc THEN w
    ELSE IF CaughtByFirstClause(w.exc) THEN default_tenant(w, default)
    ELSE print_handler(w, py2)

\* DefaultTenantMiddleware.get_tenant, DEFAULT_SCHEMA_NAME being default
default_get_tenant(w, user, default, py2) ==
    default_handlers(get_tenant(w, user), default, py2)

\* ContentType.objects.clear_cache(): the log keeps the schema that is active
\* when the cache is emptied
clear_cache(w) == Sent(w, "clear_cache", <<w.schema_name>>, TRUE)

\* a variant: the cache is cleared before the router is switched
route_ClearFirst(w) ==
    Try(clear_cache(w), LAMBDA w1 : set_tenant(w1, w1.ret, TRUE))

\* process_request from `request.tenant = tenant` on
route(w) ==
    Try(set_tenant(w, w.ret, TRUE), LAMBDA w1 : clear_cache(w1))

\* TenantMainMiddleware.process_request, got being the state after
\* self.get_tenant
main_routed(got) ==
    IF got.exc = "DoesNotExist" THEN Raise(got, TENANT_NOT_FOUND_EXCEPTION)
    ELSE Try(got, LAMBDA w : route(w))

\* CompatTenantMiddleware.process_request, got being the state after
\* self.get_tenant
compat_routed(got) ==
    Try(IF got.exc = "DoesNotExist"
        THEN get_by_schema_name([got EXCEPT !.exc = NoExc], get_public_schema_name)
        ELSE got,
        LAMBDA w : route(w))

\* the deployment: DEFAULT_SCHEMA_NAME and the Python the process runs on
Deployments == [default : {NoneName, T2}, py2 : BOOLEAN]

\* a request is handled: every cursor handed out before is an old one
Handled ==
    /\ router_call' = "process_request"
    /\ cursor_fresh' = FALSE
    /\ UNCHANGED <<tx_aborted, tx_start_path, cursor_open, vars_cfg, vars_val, vars_ctx>>

\* a variant: process_request does not touch the router before the lookup
request_start_KeepsRouter(w) == w

\* process_request: connection.set_schema_to_public()
request_start(w) == set_schema_to_public(w)

\* process_request of the middleware class cls, for request.user and the
\* deployment d (which TenantMainMiddleware does not read)
process_request(w, cls, user, d) ==
    IF cls = "TenantMainMiddleware"
        THEN main_routed(get_tenant(request_start(w), user))
    ELSE IF cls = "DefaultTenantMiddleware"
        THEN main_routed(default_get_tenant(request_start(w), user, d.default, d.py2))
    ELSE compat_routed(default_get_tenant(request_start(w), user, d.default, d.py2))

\* TenantMainMiddleware.process_request(request)
MainProcessRequest(user) ==
    /\ Becomes(process_request(World, "TenantMainMiddleware", user, FALSE))
    /\ last' = Op("TenantMainMiddleware", user, FALSE)
    /\ Handled

\* DefaultTenantMiddleware.process_request(request): the inherited method
\* with the get_tenant of the class
DefaultProcessRequest(user, d) ==
    /\ Becomes(process_request(World, "DefaultTenantMiddleware", user, d))
    /\ last' = Op("DefaultTenantMiddleware", user, d)
    /\ Handled

\* CompatTenantMiddleware.process_request(request)
CompatProcessRequest(user, d) ==
    /\ Becomes(process_request(World, "CompatTenantMiddleware", user, d))
    /\ last' = Op("CompatTenantMiddleware", user, d)
    /\ Handled

InitResolve ==
    /\ InitConnection
    /\ namespaces = {get_public_schema_name, T1, T2}
    /\ rows \in SUBSET TenantRows
    /\ clone_function = FALSE
    /\ objs = InitObjs
    /\ limit_set_calls \in BOOLEAN
    /\ fake_migrations = FALSE
    /\ vname = <<>>
    /\ vresult = "unused"
    /\ scopes = <<>>
    /\ workers = <<>>
    /\ last = Op("__init__", "-", TRUE)

NextResolve ==
    \/ \E user \in Users : MainProcessRequest(user)
    \/ \E user \in Users, d \in Deployments : DefaultProcessRequest(user, d)
    \/ \E user \in Users, d \in Deployments : CompatProcessRequest(user, d)
    \/ \E include_public \in BOOLEAN : SetSchema(T1, include_public)
    \/ Cursor(FALSE)

SpecResolve == InitResolve /\ [][NextResolve]_vars

\* the user has no tenant: nobody is logged in, or no row names the user
NoTenantFor(user) == \A r \in rows : r.id # BoundTo(user)

\* the request was routed to the tenant t: process_request returned, t is the
\* request's tenant and the connection's, and its schema is the active one
RoutedTo(t) ==
    /\ outcome' = [exc |-> NoExc, ret |-> t]
    /\ tenant' = t
    /\ schema_name' = t.schema_name

\* C18: TenantMainMiddleware.process_request either routes the request to
\* the tenant bound to its user or raises Http404; without a user, and with
\* a user that no tenant is bound to, it raises Http404.
C18_BaseChainResolvesOrNotFound ==
    [][ last'.op = "TenantMainMiddleware" =>
            /\ \/ \E r \in rows : r.id = BoundTo(last'.obj) /\ RoutedTo(Loaded(r))
               \/ outcome'.exc = TENANT_NOT_FOUND_EXCEPTION
            /\ NoTenantFor(last'.obj) => outcome'.exc = TENANT_NOT_FOUND_EXCEPTION
      ]_vars

\* the schema DefaultTenantMiddleware falls back to
FallbackSchema(d) == IF d.default = NoneName THEN get_public_schema_name ELSE d.default

\* C19: in DefaultTenantMiddleware a user without a tenant is routed to the
\* tenant of DEFAULT_SCHEMA_NAME when it is set, and to the tenant of the
\* public schema when it is not.
C19_DefaultLayerFallsBack ==
    [][ (/\ last'.op = "DefaultTenantMiddleware"
         /\ last'.obj = "unbound"
         /\ \E r \in rows : r.schema_name = FallbackSchema(last'.flag))
            => \E r \in rows : r.schema_name = FallbackSchema(last'.flag) /\ RoutedTo(Loaded(r))
      ]_vars

\* C20: CompatTenantMiddleware.process_request never raises: when the user
\* has no tenant it routes the request to the tenant of the public schema.
C20_CompatNeverRaises ==
    [][ (last'.op = "CompatTenantMiddleware" /\ PublicRow \in rows)
            => /\ outcome'.exc = NoExc
               /\ NoTenantFor(last'.obj) => RoutedTo(Loaded(PublicRow))
      ]_vars

---------------------------------------------------------------------------
(* Claims about what process_request leaves behind *)

ProcessRequests ==
    {"TenantMainMiddleware", "DefaultTenantMiddleware", "CompatTenantMiddleware"}

\* the statements of the log that are of the kind given
OfKind(l, kind) == SelectSeq(l, LAMBDA s : s.kind = kind)

\* C21: when a process_request returns, the tenant of the connection is the
\* tenant it resolved and stored on the request, the active schema is that
\* tenant's, and the content-type cache was cleared once, with the router
\* already switched to that tenant.
C21_RoutedAndCacheCleared ==
    [][ (last'.op \in ProcessRequests /\ outcome'.exc = NoExc) =>
            /\ tenant' = outcome'.ret
            /\ tenant'.kind = "row"
            /\ schema_name' = tenant'.schema_name
            /\ OfKind(log', "clear_cache") = <<Stmt("clear_cache", <<tenant'.schema_name>>, TRUE)>>
      ]_vars

C21_Witness ==
    /\ last.op \in {"TenantMainMiddleware", "CompatTenantMiddleware"}
    /\ outcome.exc = NoExc
    /\ tenant = outcome.ret
    /\ schema_name = T1
    /\ OfKind(log, "clear_cache") # <<>>

---------------------------------------------------------------------------
(* Two processes provision at the same time *)

\* Each worker has a connection of its own and its own tenant instance (the
\* worker is named after it); the database is the one they share. Every
\* statement is sent in autocommit mode, so that a worker's next statement
\* sees what the other's last one did. A step of a worker is the code of
\* create_schema between two statements after which the other may act.

\* the router fields and the session of a connection, out of a state record
Conn(w) ==
    [schema_name |-> w.schema_name, include_public_schema |-> w.include_public_schema,
     search_path_set |-> w.search_path_set, tenant |-> w.tenant,
     settings_schema |-> w.settings_schema, session_path |-> w.session_path]

\* DatabaseWrapper.__init__ of a worker's connection
NewConn ==
    [schema_name |-> get_public_schema_name, include_public_schema |-> TRUE,
     search_path_set |-> FALSE, tenant |-> FakeTenant(get_public_schema_name),
     settings_schema |-> <<get_public_schema_name>>, session_path |-> ServerDefaultPath]

\* the state worker k acts on: its connection, the shared database
WorkerWorld(k) ==
    [World EXCEPT !.schema_name = workers[k].conn.schema_name,
                  !.include_public_schema = workers[k].conn.include_public_schema,
                  !.search_path_set = workers[k].conn.search_path_set,
                  !.tenant = workers[k].conn.tenant,
                  !.settings_schema = workers[k].conn.settings_schema,
                  !.session_path = workers[k].conn.session_path]

\* the exception worker k is handling, if any
Pending(k) == workers[k].exc

\* worker k has run a step that ended in w and goes on at pc; exc is the
\* exception it is handling, or has left create_schema with
Moves(k, w, pc, exc) ==
    /\ workers' = [workers EXCEPT ![k].pc = pc, ![k].conn = Conn(w),
                                  ![k].exc = exc, ![k].ret = w.ret]
    /\ namespaces' = w.namespaces
    /\ clone_function' = w.clone_function
    /\ log' = w.log
    /\ signals' = w.signals
    /\ outcome' = [exc |-> exc, ret |-> w.ret]
    /\ UNCHANGED <<vars_conn, vars_sess, rows, objs, vars_cfg, vars_val, scopes>>

\* where the try block of create_schema starts
FirstOfStrategy == IF fake_migrations THEN "clone_schema" ELSE "CREATE"

\* create_schema(check_if_exists) up to its try block
ProbeEnds(k, w) ==
    IF w.exc # NoExc THEN Moves(k, w, "done", w.exc)
    ELSE IF workers[k].check /\ w.ret = "True"
        THEN Moves(k, [w EXCEPT !.ret = "False"], "done", NoExc)
    ELSE Moves(k, w, FirstOfStrategy, NoExc)

WorkerBegin(k) ==
    /\ workers[k].pc = "idle"
    /\ ProbeEnds(k, create_schema_probe(WorkerWorld(k), k, workers[k].check))
    /\ last' = Op("create_schema: probe", k, workers[k].check)

\* a step inside the try block: on to pc, or to the except clause
TryEnds(k, w, pc) ==
    IF w.exc # NoExc THEN Moves(k, w, "except", w.exc) ELSE Moves(k, w, pc, NoExc)

\* cursor.execute('CREATE SCHEMA %s')
WorkerCreate(k) ==
    /\ workers[k].pc = "CREATE"
    /\ TryEnds(k, execute_create(WorkerWorld(k), k, NoFaults), "migrate")
    /\ last' = Op("create_schema: CREATE", k, workers[k].check)

\* call_command('migrate_schemas', ...)
WorkerMigrate(k) ==
    /\ workers[k].pc = "migrate"
    /\ TryEnds(k, migrate_schemas(WorkerWorld(k), objs[k].schema_name, NoFaults), "return")
    /\ last' = Op("create_schema: migrate", k, workers[k].check)

\* clone_schema up to and including SELECT 'clone_schema'::regproc
ProbeFunctionEnds(k, w) ==
    IF w.exc # NoExc THEN Moves(k, w, "except", w.exc)
    ELSE IF w.clone_function THEN Moves(k, Sent(w, "REGPROC", <<>>, TRUE), "CLONE", NoExc)
    ELSE Moves(k, Sent(w, "REGPROC", <<>>, FALSE), "CREATE FUNCTION", NoExc)

WorkerProbeFunction(k) ==
    /\ workers[k].pc = "clone_schema"
    /\ ProbeFunctionEnds(k, _cursor(set_schema_to_public(WorkerWorld(k)), FALSE))
    /\ last' = Op("clone_schema: probe", k, workers[k].check)

\* except ProgrammingError: _create_clone_schema_function()
WorkerCreateFunction(k) ==
    /\ workers[k].pc = "CREATE FUNCTION"
    /\ TryEnds(k, _create_clone_schema_function(WorkerWorld(k)), "commit")
    /\ last' = Op("clone_schema: create function", k, workers[k].check)

\* transaction.commit(): every statement was committed when it was executed
WorkerCommit(k) ==
    /\ workers[k].pc = "commit"
    /\ Moves(k, WorkerWorld(k), "CLONE", NoExc)
    /\ last' = Op("clone_schema: commit", k, workers[k].check)

\* SELECT clone_schema(base, new, TRUE), then post_schema_migrate.send
WorkerClone(k) ==
    /\ workers[k].pc = "CLONE"
    /\ TryEnds(k, Try(call_clone_schema(WorkerWorld(k), get_tenant_base_schema,
                                        objs[k].schema_name, NoFaults),
                      LAMBDA w1 : send(w1, "post_schema_migrate", NoFaults)),
               "return")
    /\ last' = Op("clone_schema: clone", k, workers[k].check)

\* except Exception: self.delete_schema(), up to its schema_exists
CleanupProbeEnds(k, w) ==
    IF w.exc # NoExc THEN Moves(k, w, "done", w.exc)
    ELSE IF w.ret = "True" THEN Moves(k, w, "DROP", Pending(k))
    ELSE Moves(k, [w EXCEPT !.ret = "None"], "done", Pending(k))

WorkerCleanupProbe(k) ==
    /\ workers[k].pc = "except"
    /\ CleanupProbeEnds(k, delete_schema_probe(WorkerWorld(k), k))
    /\ last' = Op("create_schema: except", k, workers[k].check)

\* the DROP SCHEMA of that delete_schema, then `raise`
DropEnds(k, w) ==
    Moves(k, w, "done", IF w.exc # NoExc THEN w.exc ELSE Pending(k))

WorkerDrop(k) ==
    /\ workers[k].pc = "DROP"
    /\ DropEnds(k, drop_schema(WorkerWorld(k), objs[k].schema_name))
    /\ last' = Op("create_schema: DROP", k, workers[k].check)

\* connection.set_schema_to_public() and the return
WorkerReturn(k) ==
    /\ workers[k].pc = "return"
    /\ Moves(k, [set_schema_to_public(WorkerWorld(k)) EXCEPT !.ret = "None"], "done", NoExc)
    /\ last' = Op("create_schema: return", k, workers[k].check)

\* the names the two workers provision: the same one, or two
RaceNames == {T1, T2}

InitRace ==
    /\ InitConnection
    /\ namespaces = {get_public_schema_name, get_tenant_base_schema}
    /\ rows = {}
    /\ clone_function = FALSE
    /\ \E n \in RaceNames : objs = [InitObjs EXCEPT !["A"].schema_name = T1,
                                                    !["B"].schema_name = n]
    /\ limit_set_calls \in BOOLEAN
    /\ fake_migrations \in BOOLEAN
    /\ vname = <<>>
    /\ vresult = "unused"
    /\ scopes = <<>>
    /\ \E c \in [ProvObjs -> BOOLEAN] :
            workers = [k \in ProvObjs |->
                        [pc |-> "idle", conn |-> NewConn, check |-> c[k],
                         exc |-> NoExc, ret |-> "None"]]
    /\ last = Op("__init__", "-", TRUE)

NextRace ==
    \/ \E k \in ProvObjs : WorkerBegin(k)
    \/ \E k \in ProvObjs : WorkerCreate(k)
    \/ \E k \in ProvObjs : WorkerMigrate(k)
    \/ \E k \in ProvObjs : WorkerProbeFunction(k)
    \/ \E k \in ProvObjs : WorkerCreateFunction(k)
    \/ \E k \in ProvObjs : WorkerCommit(k)
    \/ \E k \in ProvObjs : WorkerClone(k)
    \/ \E k \in ProvObjs : WorkerCleanupProbe(k)
    \/ \E k \in ProvObjs : WorkerDrop(k)
    \/ \E k \in ProvObjs : WorkerReturn(k)

SpecRace == InitRace /\ [][NextRace]_vars

\* both workers have left create_schema
BothDone == \A k \in ProvObjs : workers[k].pc = "done"

\* both called create_schema(check_if_exists=True) for one name
SameNameChecked ==
    /\ objs["A"].schema_name = objs["B"].schema_name
    /\ \A k \in ProvObjs : workers[k].check

\* C22: when two workers call create_schema(check_if_exists=True) for the
\* same name at the same time, neither call ends in an exception and the
\* namespace exists when both have finished: the worker that lost the race
\* has not dropped what the winner created.
C22_CreateRaceIsNotFatal ==
    (DOMAIN workers = ProvObjs /\ BothDone /\ SameNameChecked)
        => /\ \A k \in ProvObjs : workers[k].exc = NoExc
           /\ objs["A"].schema_name \in namespaces

\* the worker that took the last step
Stepped(op) == last'.op = op /\ last'.obj \in ProvObjs

\* C25: clone_schema creates the clone procedure only when its probe has
\* missed; the creation succeeds and is visible at once also when the other
\* worker has created the procedure in between; and every call of the
\* procedure is made with the procedure present.
C25_CloneBootstrapToleratesRace ==
    [][ /\ (Stepped("clone_schema: probe") /\ outcome'.exc = NoExc) =>
                workers'[last'.obj].pc = IF clone_function THEN "CLONE" ELSE "CREATE FUNCTION"
        /\ Stepped("clone_schema: create function") =>
                /\ outcome'.exc = NoExc
                /\ clone_function'
                /\ OfKind(log', "CREATE FUNCTION") = <<Stmt("CREATE FUNCTION", <<>>, TRUE)>>
        /\ Stepped("clone_schema: clone") => clone_function
      ]_vars

\* both workers missed the probe and both have created the procedure
C25_Witness ==
    /\ DOMAIN workers = ProvObjs
    /\ last.op = "clone_schema: create function"
    /\ outcome.exc = NoExc
    /\ clone_function
    /\ \E k \in ProvObjs \ {last.obj} : workers[k].pc = "commit"

---------------------------------------------------------------------------
(* Claims about the search_path_set flag *)

\* the operations that write the router's state: the three router calls, and
\* close(), after which the connection has a new session
StateChanges == {"set_tenant", "set_schema", "set_schema_to_public", "close"}

\* the SET search_path statements of a log
Sets(l) == OfKind(l, "SET")

\* C23: with TENANT_LIMIT_SET_CALLS a cursor acquisition sends SET
\* search_path only when search_path_set is False, and a clean flag becomes
\* dirty only by a change of the router's state: between two such changes at
\* most one SET succeeds, however many cursors are obtained. Without the
\* setting every cursor acquisition sends exactly one SET.
C23_SetOnlyWhenDirty ==
    [][ /\ (last'.op = "cursor" /\ limit_set_calls /\ search_path_set)
              => (log' = <<>> /\ search_path_set' /\ outcome'.exc = NoExc)
        /\ (last'.op = "cursor" /\ outcome'.exc = NoExc
                /\ ~(limit_set_calls /\ search_path_set))
              => (Len(log') = 1 /\ Len(Sets(log')) = 1 /\ search_path_set' = log'[1].ok)
        /\ (limit_set_calls /\ search_path_set /\ ~search_path_set')
              => last'.op \in StateChanges
      ]_vars

\* a cursor obtained with the setting on and the flag clean sent nothing: the
\* SET of an earlier cursor is still the one in force
C23_Witness ==
    /\ limit_set_calls
    /\ last.op = "cursor"
    /\ outcome.exc = NoExc
    /\ log = <<>>
    /\ search_path_set
    /\ schema_name = T1

\* the last step was a cursor acquisition whose SET the backend refused
SetFailed == last'.op = "cursor" /\ Sets(log') # <<>> /\ ~Sets(log')[1].ok

\* C24: when the backend refuses the SET search_path of a cursor acquisition
\* the cursor is returned all the same and search_path_set is False
\* afterwards; a cursor acquisition that finds the flag False sends SET; and
\* the flag becomes True only by a SET that succeeded.
C24_FailedSetIsRetried ==
    [][ /\ SetFailed => /\ outcome'.exc = NoExc
                        /\ cursor_open' /\ cursor_fresh'
                        /\ ~search_path_set'
                        /\ session_path' = session_path
        /\ (last'.op = "cursor" /\ ~search_path_set /\ outcome'.exc = NoExc)
              => Len(Sets(log')) = 1
        /\ (~search_path_set /\ search_path_set')
              => (last'.op = "cursor" /\ Sets(log') # <<>> /\ Sets(log')[1].ok)
      ]_vars

\* the SET of a cursor acquisition failed, with the setting on: the caller
\* holds the cursor and the flag is False
C24_Witness ==
    /\ limit_set_calls
    /\ last.op = "cursor"
    /\ outcome.exc = NoExc
    /\ log # <<>> /\ log[1].kind = "SET" /\ ~log[1].ok
    /\ cursor_fresh
    /\ ~search_path_set

---------------------------------------------------------------------------
(* Claims about what the cleanup of a failed provisioning removes *)

\* the last step was a create_schema, or a save of a tenant not saved
\* before, that ended in an exception
ProvisioningFailed ==
    /\ \/ last'.op = "create_schema"
       \/ last'.op = "save" /\ ~objs[last'.obj].pk
    /\ outcome'.exc # NoExc

\* C26: when create_schema, or save of a new tenant, fails, every namespace
\* that existed before the call exists after it: the cleanup drops only what
\* the call itself created.
C26_CleanupKeepsOlderNamespaces ==
    [][ ProvisioningFailed => namespaces \subseteq namespaces' ]_vars

\* the flag says that the path of the router's state is the session's
AppliedPathIsLive ==
    search_path_set => session_path = search_paths(schema_name, include_public_schema)

\* C27: in every state in which search_path_set is True the search path of
\* the live session is the path of the active schema and the include-public
\* flag; every router call and close() leave the flag False, and the cursor
\* acquisition that follows sends SET, with or without TENANT_LIMIT_SET_CALLS.
C27_FlagMeansApplied ==
    /\ []AppliedPathIsLive
    /\ [][ /\ last'.op \in StateChanges => ~search_path_set'
           /\ (last.op \in StateChanges /\ last'.op = "cursor" /\ outcome'.exc = NoExc)
                 => Len(Sets(log')) = 1
         ]_vars

---------------------------------------------------------------------------
(* Claims about requests that follow one another on one connection *)

\* the state a request finds on a connection that has served no request: the
\* same database, the router and the session as __init__ leaves them
FreshWorld ==
    [World EXCEPT !.schema_name = NewConn.schema_name,
                  !.include_public_schema = NewConn.include_public_schema,
                  !.search_path_set = NewConn.search_path_set,
                  !.tenant = NewConn.tenant,
                  !.settings_schema = NewConn.settings_schema,
                  !.session_path = NewConn.session_path]

\* the tenant lookups of a log
Lookups(l) == OfKind(l, "SELECT ROW")

\* C28: whatever the previous request has left on the connection, the tenant
\* lookup of process_request runs on the search path of the public schema,
\* the request ends as it would on a connection that has served none (same
\* exception or tenant, same router state), and a request that fails leaves
\* the public schema active.
C28_RequestsAreIndependent ==
    [][ last'.op \in ProcessRequests =>
            /\ \A i \in 1..Len(Lookups(log')) :
                    /\ Lookups(log')[i].ok
                    /\ Lookups(log')[i].names = search_paths(get_public_schema_name, TRUE)
            /\ outcome' = [exc |-> process_request(FreshWorld, last'.op, last'.obj, last'.flag).exc,
                           ret |-> process_request(FreshWorld, last'.op, last'.obj, last'.flag).ret]
            /\ RouterState(World)' =
                    RouterState(process_request(FreshWorld, last'.op, last'.obj, last'.flag))
            /\ outcome'.exc # NoExc =>
                    /\ schema_name' = get_public_schema_name
                    /\ settings_schema' = <<get_public_schema_name>>
                    /\ tenant' \in {FakeTenant(get_public_schema_name), NoTenant}
                    /\ ~(search_path_set' /\ session_path' # search_paths(get_public_schema_name, TRUE))
      ]_vars

\* a request without a user failed on a connection whose session still has
\* the search path of the tenant t1, applied for the request before: the
\* public schema is active and the path is to be set again
C28_Witness ==
    /\ last.op \in ProcessRequests
    /\ last.obj = "none"
    /\ outcome.exc # NoExc
    /\ session_path = search_paths(T1, FALSE)
    /\ schema_name = get_public_schema_name
    /\ ~search_path_set

=============================================================================
